---- MODULE Spec2Model ----
(***************************************************************************)
(* kafka/cluster.py: ClusterMetadata, the client-local cache of brokers,   *)
(* topic partitions and partition leaders, with its refresh clock, its     *)
(* need-update flag, its shared pending-update Future and its listeners.   *)
(*                                                                         *)
(* Time is the integer number of milliseconds read from time.time()*1000.  *)
(* Python's None is NoneValue; an optional result is NoneValue or          *)
(* Some(v).  A Future object is an index into the heap `futures`; the      *)
(* attribute _future holds such an index, or NoFuture for None.            *)
(***************************************************************************)
EXTENDS Integers, Sequences, FiniteSets

VARIABLES
    _brokers,                    \* dict node_id -> BrokerMetadata
    _partitions,                 \* dict topic -> dict partition -> leader
    _version,
    _last_refresh_ms,
    _last_successful_refresh_ms,
    _need_update,
    _future,                     \* index into futures, or NoFuture
    _listeners,                  \* set of callbacks
    _retry_backoff_ms,
    _metadata_max_age_ms,
    futures,                     \* every Future created so far, by identity
    now,                         \* time.time() * 1000
    ticks,                       \* how often the clock has advanced
    merges,                      \* update_metadata calls that reached the merge
    lastTopics,                  \* metadata.topics of the last such call
    lastCall,                    \* the last call: its name, argument, result
    frame,                       \* update_metadata or failed_update under way
    reader                       \* a query of another thread under way

vars == <<_brokers, _partitions, _version, _last_refresh_ms,
          _last_successful_refresh_ms, _need_update, _future, _listeners,
          _retry_backoff_ms, _metadata_max_age_ms, futures, now, ticks,
          merges, lastTopics, lastCall, frame, reader>>

----------------------------------------------------------------------------
(* Bounds of the exploration. *)

MaxTicks == 2

MaxFutures == 2

MaxVersion == 2

----------------------------------------------------------------------------
(* Values. *)

NoneValue == [found |-> FALSE]

Some(v) == [found |-> TRUE, value |-> v]

NoFuture == 0

EmptyDict == [k \in {} |-> 0]

\* d.update({k: v}) and d[k] = v
DictSet(d, k, v) == [x \in (DOMAIN d) \cup {k} |-> IF x = k THEN v ELSE d[x]]

\* d.get(k)
DictGet(d, k) == IF k \in DOMAIN d THEN Some(d[k]) ELSE NoneValue

\* set(d.values())
DictValues(d) == {d[k] : k \in DOMAIN d}

Max(S) == CHOOSE x \in S : \A y \in S : y <= x

\* kafka.common.BrokerMetadata(nodeId, host, port), a namedtuple
BrokerMetadata(node_id, host, port) ==
    [nodeId |-> node_id, host |-> host, port |-> port]

\* kafka.common.TopicPartition(topic, partition), a namedtuple
TopicPartition(topic, partition) == [topic |-> topic, partition |-> partition]

\* kafka.common.for_code: the error class of a numeric error code
for_code(error_code) ==
    CASE error_code = 0  -> "NoError"
      [] error_code = 3  -> "UnknownTopicOrPartitionError"
      [] error_code = 5  -> "LeaderNotAvailableError"
      [] error_code = 17 -> "InvalidTopicError"
      [] error_code = 29 -> "TopicAuthorizationFailedError"
      [] OTHER           -> "UnknownError"

\* Errors.for_code(error_code)(topic): an exception instance
ErrorInstance(error_code, topic) == [type |-> for_code(error_code), args |-> topic]

\* kafka.future.Future()
NewFuture == [is_done |-> FALSE, value |-> NoneValue, exception |-> NoneValue]

\* Future.success(value)
FutureSuccess(f, value) ==
    [f EXCEPT !.is_done = TRUE, !.value = Some(value)]

\* Future.failure(e)
FutureFailure(f, e) ==
    [f EXCEPT !.is_done = TRUE, !.exception = Some(e)]

----------------------------------------------------------------------------
(* Configuration: the class attributes, and what __init__ may be given. *)

DefaultRetryBackoffMs == 100

DefaultMetadataMaxAgeMs == 300000

\* the keyword arguments of __init__ explored: none, and two overrides
Configs ==
    { [retry_backoff_ms |-> DefaultRetryBackoffMs,
       metadata_max_age_ms |-> DefaultMetadataMaxAgeMs],
      [retry_backoff_ms |-> 2, metadata_max_age_ms |-> 3],
      [retry_backoff_ms |-> 3, metadata_max_age_ms |-> 2] }

----------------------------------------------------------------------------
(* Read queries. *)

\* ClusterMetadata.brokers
brokers == DictValues(_brokers)

\* ClusterMetadata.broker_metadata
broker_metadata(broker_id) == DictGet(_brokers, broker_id)

\* ClusterMetadata.partitions_for_topic
partitions_for_topic(topic) ==
    IF topic \notin DOMAIN _partitions
    THEN NoneValue
    ELSE Some(DOMAIN _partitions[topic])

\* ClusterMetadata.leader_for_partition
leader_for_partition(partition) ==
    IF partition.topic \notin DOMAIN _partitions
    THEN NoneValue
    ELSE DictGet(_partitions[partition.topic], partition.partition)

\* ClusterMetadata.topics
topics == DOMAIN _partitions

\* a requested update overriding the retry backoff
ttl_at_NoBackoff(t) ==
    LET ttl   == _last_successful_refresh_ms + _metadata_max_age_ms - t
        retry == _last_refresh_ms + _retry_backoff_ms - t
    IN  IF _need_update THEN 0 ELSE Max({ttl, retry, 0})

\* the 0 left out of the max
ttl_at_NoFloor(t) ==
    LET ttl   == IF _need_update
                 THEN 0
                 ELSE _last_successful_refresh_ms + _metadata_max_age_ms - t
        retry == _last_refresh_ms + _retry_backoff_ms - t
    IN  Max({ttl, retry})

\* the time read left out of the retry term
ttl_at_NoClock(t) ==
    LET ttl   == IF _need_update
                 THEN 0
                 ELSE _last_successful_refresh_ms + _metadata_max_age_ms - t
        retry == _last_refresh_ms + _retry_backoff_ms
    IN  Max({ttl, retry, 0})

\* ClusterMetadata.ttl, read when the clock shows t
ttl_at(t) ==
    LET ttl   == IF _need_update
                 THEN 0
                 ELSE _last_successful_refresh_ms + _metadata_max_age_ms - t
        retry == _last_refresh_ms + _retry_backoff_ms - t
    IN  Max({ttl, retry, 0})

\* ClusterMetadata.ttl
ttl == ttl_at(now)

----------------------------------------------------------------------------
(* The merge of a MetadataResponse. *)

\* the test of the error code inverted
IsSingleTopicError_CodeZero(metadata) ==
    Len(metadata.topics) = 1 /\ metadata.topics[1][1] = 0

\* the first topic's error tested whatever the number of topics
IsSingleTopicError_AnyLength(metadata) ==
    Len(metadata.topics) >= 1 /\ metadata.topics[1][1] # 0

\* "len(metadata.topics) == 1 and metadata.topics[0][0] != 0"
IsSingleTopicError(metadata) ==
    Len(metadata.topics) = 1 /\ metadata.topics[1][1] # 0

\* "for node_id, host, port in metadata.brokers: self._brokers.update(...)"
RECURSIVE UpdateBrokers(_, _)
UpdateBrokers(d, entries) ==
    IF entries = <<>>
    THEN d
    ELSE LET e == Head(entries)
         IN  UpdateBrokers(DictSet(d, e[1], BrokerMetadata(e[1], e[2], e[3])),
                           Tail(entries))

\* "for _, partition, leader, _, _ in partitions:
\*      self._partitions[topic][partition] = leader"
RECURSIVE SetLeaders(_, _)
SetLeaders(d, partitions) ==
    IF partitions = <<>>
    THEN d
    ELSE LET p == Head(partitions)
         IN  SetLeaders(DictSet(d, p[2], p[3]), Tail(partitions))

\* a topic without error and without partitions left out
RECURSIVE AddTopics_SkipEmpty(_, _)
AddTopics_SkipEmpty(d, entries) ==
    IF entries = <<>>
    THEN d
    ELSE LET e == Head(entries)
             error_type == for_code(e[1])
         IN  IF error_type = "NoError" /\ e[3] # <<>>
             THEN AddTopics_SkipEmpty(
                      DictSet(d, e[2], SetLeaders(EmptyDict, e[3])),
                      Tail(entries))
             ELSE AddTopics_SkipEmpty(d, Tail(entries))

\* "for error_code, topic, partitions in metadata.topics: ..."
RECURSIVE AddTopics(_, _)
AddTopics(d, entries) ==
    IF entries = <<>>
    THEN d
    ELSE LET e == Head(entries)
             error_type == for_code(e[1])
         IN  IF error_type = "NoError"
             THEN AddTopics(DictSet(d, e[2], SetLeaders(EmptyDict, e[3])),
                            Tail(entries))
             ELSE AddTopics(d, Tail(entries))

\* the loop over metadata.topics without "self._partitions = {}" before it
RebuildPartitions_NoReset(old, entries) == AddTopics(old, entries)

\* "self._partitions = {}" and the loop over metadata.topics
RebuildPartitions(old, entries) == AddTopics(EmptyDict, entries)

----------------------------------------------------------------------------
(* The calls explored: their arguments. *)

NodeIds == {1, 2}

TopicNames == {"orders", "ghost"}

Callbacks == {"cb1", "cb2"}

\* exceptions handed to failed_update by the refresh driver
Exceptions == {[type |-> "NodeNotReadyError", args |-> "node"]}

\* one (error_code, partition, leader, replicas, isr) entry of a topic
PartitionEntry(partition, leader) == <<0, partition, leader, <<>>, <<>>>>

PartitionLists ==
    { <<>>,
      <<PartitionEntry(0, 1), PartitionEntry(1, 2)>>,
      <<PartitionEntry(0, 2), PartitionEntry(0, 1)>> }

\* NoError, UnknownTopicOrPartition, LeaderNotAvailable, InvalidTopic,
\* TopicAuthorizationFailed, and a code of no class of its own
ErrorCodes == {0, 3, 5, 17, 29, -1}

TopicEntries ==
    { <<0, t, ps>> : t \in TopicNames, ps \in PartitionLists }
    \cup { <<c, t, <<>>>> : c \in {3, 5}, t \in TopicNames }
    \cup { <<c, "ghost", <<>>>> : c \in ErrorCodes \ {0} }
    \cup { <<3, "ghost", <<PartitionEntry(0, 1)>>>> }

\* a response names a topic once
TopicLists ==
    { <<>> } \cup { <<e>> : e \in TopicEntries }
    \cup { es \in TopicEntries \X TopicEntries : es[1][2] # es[2][2] }

BrokerLists ==
    { <<>>,
      <<<<1, "h1", 9092>>>>,
      <<<<2, "h2", 9092>>>>,
      <<<<1, "h1", 9092>>, <<2, "h2", 9092>>>>,
      <<<<1, "h1", 9092>>, <<1, "h2", 9092>>>> }

\* every topic list under one broker list, and every broker list under
\* two topic lists
MetadataResponses ==
    { [brokers |-> <<<<1, "h1", 9092>>, <<2, "h2", 9092>>>>, topics |-> ts] :
          ts \in TopicLists }
    \cup { [brokers |-> bs, topics |-> ts] :
               bs \in BrokerLists,
               ts \in { <<>>,
                        <<<<0, "orders", <<PartitionEntry(0, 2),
                                           PartitionEntry(0, 1)>>>>>> } }

\* the responses tried together with the clock, the Future and the
\* listeners: two topics of which one fails, a single failing topic, no
\* topic at all, two failing topics (twice), a single topic without
\* partitions
SomeMetadataResponses ==
    { [brokers |-> <<<<1, "h1", 9092>>, <<2, "h2", 9092>>>>,
       topics  |-> << <<0, "orders",
                        <<PartitionEntry(0, 1), PartitionEntry(1, 2)>>>>,
                      <<3, "ghost", <<>>>> >>],
      [brokers |-> <<<<1, "h1", 9092>>>>,
       topics  |-> << <<5, "orders", <<>>>> >>],
      [brokers |-> <<>>, topics |-> <<>>],
      [brokers |-> <<<<2, "h2", 9092>>>>,
       topics  |-> << <<17, "orders", <<>>>>, <<29, "ghost", <<>>>> >>],
      [brokers |-> <<<<1, "h1", 9092>>>>,
       topics  |-> << <<5, "orders", <<>>>>,
                      <<-1, "ghost", <<PartitionEntry(0, 1)>>>> >>],
      [brokers |-> <<<<1, "h2", 9092>>>>,
       topics  |-> << <<0, "ghost", <<>>>> >>] }

----------------------------------------------------------------------------
(* The record of the last call. *)

NoCalls == [cb \in Callbacks |-> 0]

\* what a call was given, what it returned or raised, and how often it
\* invoked each callback
Call(op, arg, ret, raised, notified) ==
    [op |-> op, arg |-> arg, ret |-> ret, raised |-> raised,
     notified |-> notified]

\* no call of update_metadata or failed_update is under way
IdleFrame == [pc |-> "idle"]

\* no query of another thread is under way
IdleReader == [pc |-> "idle"]

----------------------------------------------------------------------------
(* ClusterMetadata.__init__ *)

Init ==
    /\ _brokers = EmptyDict
    /\ _partitions = EmptyDict
    /\ _version = 0
    /\ _last_refresh_ms = 0
    /\ _last_successful_refresh_ms = 0
    /\ _need_update = FALSE
    /\ _future = NoFuture
    /\ _listeners = {}
    /\ \E config \in Configs :
          /\ _retry_backoff_ms = config.retry_backoff_ms
          /\ _metadata_max_age_ms = config.metadata_max_age_ms
    /\ futures = <<>>
    /\ now = 0
    /\ ticks = 0
    /\ merges = 0
    /\ lastTopics = <<>>
    /\ lastCall = Call("__init__", NoneValue, NoneValue, "", NoCalls)
    /\ frame = IdleFrame
    /\ reader = IdleReader

----------------------------------------------------------------------------
(* The clock: time passes between calls and never runs backwards. *)

Tick(d) ==
    /\ ticks < MaxTicks
    /\ now' = now + d
    /\ ticks' = ticks + 1
    /\ lastCall' = Call("clock", d, NoneValue, "", NoCalls)
    /\ UNCHANGED <<_brokers, _partitions, _version, _last_refresh_ms,
                   _last_successful_refresh_ms, _need_update, _future,
                   _listeners, _retry_backoff_ms, _metadata_max_age_ms,
                   futures, merges, lastTopics, frame, reader>>

----------------------------------------------------------------------------
(* ClusterMetadata.request_update *)

\* a Future created on every call
NeedsNewFuture_Always == TRUE

\* "not self._future or self._future.is_done"
NeedsNewFuture == _future = NoFuture \/ futures[_future].is_done

request_update ==
    /\ NeedsNewFuture => Len(futures) < MaxFutures
    /\ _need_update' = TRUE
    /\ IF NeedsNewFuture
       THEN /\ futures' = Append(futures, NewFuture)
            /\ _future' = Len(futures) + 1
       ELSE UNCHANGED <<futures, _future>>
    /\ lastCall' = Call("request_update", NoneValue, _future', "", NoCalls)
    /\ UNCHANGED <<_brokers, _partitions, _version, _last_refresh_ms,
                   _last_successful_refresh_ms, _listeners,
                   _retry_backoff_ms, _metadata_max_age_ms, now, ticks,
                   merges, lastTopics, frame, reader>>

----------------------------------------------------------------------------
(* ClusterMetadata.failed_update *)

\* the Future forgotten, not failed
FailedUpdate_DropsFuture(exception) ==
    /\ _future' = NoFuture
    /\ _last_refresh_ms' = now
    /\ UNCHANGED <<_brokers, _partitions, _version, futures,
                   _last_successful_refresh_ms, _need_update, _listeners,
                   _retry_backoff_ms, _metadata_max_age_ms>>

\* failed_update clearing the need-update flag as a success does
FailedUpdate_ClearsFlag(exception) ==
    /\ IF _future # NoFuture
       THEN /\ futures' = [futures EXCEPT
                              ![_future] = FutureFailure(@, exception)]
            /\ _future' = NoFuture
       ELSE UNCHANGED <<futures, _future>>
    /\ _last_refresh_ms' = now
    /\ _need_update' = FALSE
    /\ UNCHANGED <<_brokers, _partitions, _version,
                   _last_successful_refresh_ms, _listeners,
                   _retry_backoff_ms, _metadata_max_age_ms>>

\* the body of failed_update: what it does to the cache
FailedUpdate(exception) ==
    /\ IF _future # NoFuture
       THEN /\ futures' = [futures EXCEPT
                              ![_future] = FutureFailure(@, exception)]
            /\ _future' = NoFuture
       ELSE UNCHANGED <<futures, _future>>
    /\ _last_refresh_ms' = now
    /\ UNCHANGED <<_brokers, _partitions, _version,
                   _last_successful_refresh_ms, _need_update, _listeners,
                   _retry_backoff_ms, _metadata_max_age_ms>>

failed_update(exception) ==
    /\ FailedUpdate(exception)
    /\ lastCall' = Call("failed_update", exception, NoneValue, "", NoCalls)
    /\ UNCHANGED <<now, ticks, merges, lastTopics, frame, reader>>

----------------------------------------------------------------------------
(* ClusterMetadata.update_metadata *)

\* only the timestamp of the success stamped
StampSuccess_OnlySuccessful ==
    /\ _last_successful_refresh_ms' = now
    /\ UNCHANGED _last_refresh_ms

\* "now = time.time() * 1000; self._last_refresh_ms = now;
\*  self._last_successful_refresh_ms = now"
StampSuccess ==
    /\ _last_refresh_ms' = now
    /\ _last_successful_refresh_ms' = now

\* the listener loop left out
NotifyListeners_None == NoCalls

\* "for listener in self._listeners: listener(self)"
NotifyListeners == [cb \in Callbacks |-> IF cb \in _listeners THEN 1 ELSE 0]

\* the increment left out
NextVersion_Unchanged == _version

\* "self._version += 1"
NextVersion == _version + 1

\* the merge: everything after the single-topic short-circuit
MergeMetadata(metadata) ==
    /\ _brokers' = UpdateBrokers(_brokers, metadata.brokers)
    /\ _partitions' = RebuildPartitions(_partitions, metadata.topics)
    /\ IF _future # NoFuture
       THEN futures' = [futures EXCEPT ![_future] = FutureSuccess(@, "self")]
       ELSE UNCHANGED futures
    /\ _future' = NoFuture
    /\ _need_update' = FALSE
    /\ _version' = NextVersion
    /\ StampSuccess
    /\ UNCHANGED <<_listeners, _retry_backoff_ms, _metadata_max_age_ms>>

\* a response of exactly one topic, whose error code is not 0: what the
\* history variables tell apart, whatever the code above does with it
OneTopicInError(metadata) ==
    Len(metadata.topics) = 1 /\ metadata.topics[1][1] # 0

update_metadata(metadata) ==
    /\ IF IsSingleTopicError(metadata)
       THEN /\ FailedUpdate(ErrorInstance(metadata.topics[1][1],
                                          metadata.topics[1][2]))
            /\ lastCall' = Call("update_metadata", metadata, NoneValue, "",
                                NoCalls)
       ELSE /\ _version < MaxVersion
            /\ MergeMetadata(metadata)
            /\ lastCall' = Call("update_metadata", metadata, NoneValue, "",
                                NotifyListeners)
    /\ merges' = IF OneTopicInError(metadata) THEN merges ELSE merges + 1
    /\ lastTopics' = IF OneTopicInError(metadata)
                     THEN lastTopics
                     ELSE metadata.topics
    /\ UNCHANGED <<now, ticks, frame, reader>>

----------------------------------------------------------------------------
(* ClusterMetadata.add_listener, ClusterMetadata.remove_listener *)

add_listener(listener) ==
    /\ _listeners' = _listeners \cup {listener}
    /\ lastCall' = Call("add_listener", listener, NoneValue, "", NoCalls)
    /\ UNCHANGED <<_brokers, _partitions, _version, _last_refresh_ms,
                   _last_successful_refresh_ms, _need_update, _future,
                   _retry_backoff_ms, _metadata_max_age_ms, futures, now,
                   ticks, merges, lastTopics, frame, reader>>

\* set.discard in the place of set.remove: nothing raised
remove_listener_Discard(listener) ==
    /\ _listeners' = _listeners \ {listener}
    /\ lastCall' = Call("remove_listener", listener, NoneValue, "", NoCalls)
    /\ UNCHANGED <<_brokers, _partitions, _version, _last_refresh_ms,
                   _last_successful_refresh_ms, _need_update, _future,
                   _retry_backoff_ms, _metadata_max_age_ms, futures, now,
                   ticks, merges, lastTopics, frame, reader>>

\* set.remove raises KeyError for an element that is not in the set
remove_listener(listener) ==
    /\ IF listener \in _listeners
       THEN /\ _listeners' = _listeners \ {listener}
            /\ lastCall' = Call("remove_listener", listener, NoneValue, "",
                                NoCalls)
       ELSE /\ UNCHANGED _listeners
            /\ lastCall' = Call("remove_listener", listener, NoneValue,
                                "KeyError", NoCalls)
    /\ UNCHANGED <<_brokers, _partitions, _version, _last_refresh_ms,
                   _last_successful_refresh_ms, _need_update, _future,
                   _retry_backoff_ms, _metadata_max_age_ms, futures, now,
                   ticks, merges, lastTopics, frame, reader>>

----------------------------------------------------------------------------

\* __init__ without keyword arguments
InitDefault ==
    /\ Init
    /\ _retry_backoff_ms = DefaultRetryBackoffMs
    /\ _metadata_max_age_ms = DefaultMetadataMaxAgeMs

\* Every operation of a cache built with the defaults, a millisecond or
\* more apart.
Next ==
    \/ \E d \in {1} : Tick(d)
    \/ request_update
    \/ \E exception \in Exceptions : failed_update(exception)
    \/ \E metadata \in SomeMetadataResponses : update_metadata(metadata)
    \/ \E listener \in Callbacks : add_listener(listener)
    \/ \E listener \in Callbacks : remove_listener(listener)

Spec == InitDefault /\ [][Next]_vars

\* The refresh clock: every configuration, with the clock advancing by a
\* millisecond, by the retry backoff or by the maximum age between the
\* calls of the refresh handshake.
TickSteps == {1, _retry_backoff_ms, _metadata_max_age_ms}

ClockResponses ==
    { [brokers |-> <<<<1, "h1", 9092>>>>,
       topics  |-> << <<0, "orders", <<PartitionEntry(0, 1)>>>> >>],
      [brokers |-> <<<<1, "h1", 9092>>>>,
       topics  |-> << <<5, "orders", <<>>>> >>] }

NextClock ==
    \/ \E d \in TickSteps : Tick(d)
    \/ request_update
    \/ \E exception \in Exceptions : failed_update(exception)
    \/ \E metadata \in ClockResponses : update_metadata(metadata)

SpecClock == Init /\ [][NextClock]_vars

\* The merge: every response, with the clock standing still.
NextMerge ==
    \/ \E exception \in Exceptions : failed_update(exception)
    \/ \E metadata \in MetadataResponses : update_metadata(metadata)

SpecMerge == InitDefault /\ [][NextMerge]_vars

----------------------------------------------------------------------------
(* update_metadata and failed_update statement by statement.  The class   *)
(* holds no lock, so the queries of another thread, and the callbacks the *)
(* Future runs inside success() and failure(), see the cache between two  *)
(* statements.  frame is the position of the call under way, with its     *)
(* argument and the cache as the call found it.                           *)

\* the attributes as a call finds them
Snapshot ==
    [brokers |-> _brokers, partitions |-> _partitions, version |-> _version,
     need_update |-> _need_update, future |-> _future]

Enter(pc, op, arg, exception) ==
    [pc |-> pc, op |-> op, arg |-> arg, exception |-> exception,
     i |-> 1, j |-> 1, resolved |-> NoFuture, before |-> Snapshot]

\* where the loop over metadata.topics goes with index i: into its body,
\* or past its end
TopicLoop(i) ==
    [frame EXCEPT !.pc = IF i <= Len(frame.arg.topics)
                         THEN "topic"
                         ELSE "success",
                  !.i = i, !.j = 1]

\* "if len(metadata.topics) == 1 and metadata.topics[0][0] != 0: ...
\*  return self.failed_update(error)"
update_metadata_enter(metadata) ==
    /\ frame.pc = "idle"
    /\ IF IsSingleTopicError(metadata)
       THEN frame' = Enter("failure", "update_metadata", metadata,
                           ErrorInstance(metadata.topics[1][1],
                                         metadata.topics[1][2]))
       ELSE /\ _version < MaxVersion
            /\ frame' = Enter("brokers", "update_metadata", metadata,
                              NoneValue)
    /\ UNCHANGED <<_brokers, _partitions, _version, _last_refresh_ms,
                   _last_successful_refresh_ms, _need_update, _future,
                   _listeners, _retry_backoff_ms, _metadata_max_age_ms,
                   futures, now, ticks, merges, lastTopics, lastCall, reader>>

\* "for node_id, host, port in metadata.brokers: self._brokers.update(...)"
update_metadata_brokers ==
    /\ frame.pc = "brokers"
    /\ _brokers' = UpdateBrokers(_brokers, frame.arg.brokers)
    /\ frame' = [frame EXCEPT !.pc = "reset"]
    /\ UNCHANGED <<_partitions, _version, _last_refresh_ms,
                   _last_successful_refresh_ms, _need_update, _future,
                   _listeners, _retry_backoff_ms, _metadata_max_age_ms,
                   futures, now, ticks, merges, lastTopics, lastCall, reader>>

\* "self._partitions = {}"
update_metadata_reset ==
    /\ frame.pc = "reset"
    /\ _partitions' = EmptyDict
    /\ frame' = TopicLoop(1)
    /\ UNCHANGED <<_brokers, _version, _last_refresh_ms,
                   _last_successful_refresh_ms, _need_update, _future,
                   _listeners, _retry_backoff_ms, _metadata_max_age_ms,
                   futures, now, ticks, merges, lastTopics, lastCall, reader>>

\* "error_type = Errors.for_code(error_code)
\*  if error_type is Errors.NoError: self._partitions[topic] = {}"
\* and, for the other types, the log entry
update_metadata_topic ==
    /\ frame.pc = "topic"
    /\ LET e == frame.arg.topics[frame.i] IN
       IF for_code(e[1]) = "NoError"
       THEN /\ _partitions' = DictSet(_partitions, e[2], EmptyDict)
            /\ frame' = IF e[3] = <<>>
                        THEN TopicLoop(frame.i + 1)
                        ELSE [frame EXCEPT !.pc = "partition", !.j = 1]
       ELSE /\ UNCHANGED _partitions
            /\ frame' = TopicLoop(frame.i + 1)
    /\ UNCHANGED <<_brokers, _version, _last_refresh_ms,
                   _last_successful_refresh_ms, _need_update, _future,
                   _listeners, _retry_backoff_ms, _metadata_max_age_ms,
                   futures, now, ticks, merges, lastTopics, lastCall, reader>>

\* "self._partitions[topic][partition] = leader"
update_metadata_partition ==
    /\ frame.pc = "partition"
    /\ LET e == frame.arg.topics[frame.i]
           p == e[3][frame.j]
       IN  /\ _partitions' = DictSet(_partitions, e[2],
                                     DictSet(_partitions[e[2]], p[2], p[3]))
           /\ frame' = IF frame.j < Len(e[3])
                       THEN [frame EXCEPT !.j = frame.j + 1]
                       ELSE TopicLoop(frame.i + 1)
    /\ UNCHANGED <<_brokers, _version, _last_refresh_ms,
                   _last_successful_refresh_ms, _need_update, _future,
                   _listeners, _retry_backoff_ms, _metadata_max_age_ms,
                   futures, now, ticks, merges, lastTopics, lastCall, reader>>

\* "if self._future: self._future.success(self)": the Future is resolved
\* and runs its callbacks before the next statement
update_metadata_success ==
    /\ frame.pc = "success"
    /\ IF _future # NoFuture
       THEN /\ futures' = [futures EXCEPT
                              ![_future] = FutureSuccess(@, "self")]
            /\ frame' = [frame EXCEPT !.pc = "clear", !.resolved = _future]
       ELSE /\ UNCHANGED futures
            /\ frame' = [frame EXCEPT !.pc = "clear"]
    /\ UNCHANGED <<_brokers, _partitions, _version, _last_refresh_ms,
                   _last_successful_refresh_ms, _need_update, _future,
                   _listeners, _retry_backoff_ms, _metadata_max_age_ms,
                   now, ticks, merges, lastTopics, lastCall, reader>>

\* the flag left as it was
update_metadata_flag_Skip ==
    /\ frame.pc = "flag"
    /\ frame' = [frame EXCEPT !.pc = "version"]
    /\ UNCHANGED <<_brokers, _partitions, _version, _last_refresh_ms,
                   _last_successful_refresh_ms, _need_update, _future,
                   _listeners, _retry_backoff_ms, _metadata_max_age_ms,
                   futures, now, ticks, merges, lastTopics, lastCall, reader>>

\* "self._future = None"
update_metadata_clear ==
    /\ frame.pc = "clear"
    /\ _future' = NoFuture
    /\ frame' = [frame EXCEPT !.pc = "flag"]
    /\ UNCHANGED <<_brokers, _partitions, _version, _last_refresh_ms,
                   _last_successful_refresh_ms, _need_update, _listeners,
                   _retry_backoff_ms, _metadata_max_age_ms, futures, now,
                   ticks, merges, lastTopics, lastCall, reader>>

\* "self._need_update = False"
update_metadata_flag ==
    /\ frame.pc = "flag"
    /\ _need_update' = FALSE
    /\ frame' = [frame EXCEPT !.pc = "version"]
    /\ UNCHANGED <<_brokers, _partitions, _version, _last_refresh_ms,
                   _last_successful_refresh_ms, _future, _listeners,
                   _retry_backoff_ms, _metadata_max_age_ms, futures, now,
                   ticks, merges, lastTopics, lastCall, reader>>

\* "self._version += 1"
update_metadata_version ==
    /\ frame.pc = "version"
    /\ _version' = NextVersion
    /\ frame' = [frame EXCEPT !.pc = "stamp"]
    /\ UNCHANGED <<_brokers, _partitions, _last_refresh_ms,
                   _last_successful_refresh_ms, _need_update, _future,
                   _listeners, _retry_backoff_ms, _metadata_max_age_ms,
                   futures, now, ticks, merges, lastTopics, lastCall, reader>>

\* "now = time.time() * 1000; self._last_refresh_ms = now;
\*  self._last_successful_refresh_ms = now"
update_metadata_stamp ==
    /\ frame.pc = "stamp"
    /\ StampSuccess
    /\ frame' = [frame EXCEPT !.pc = "listeners"]
    /\ UNCHANGED <<_brokers, _partitions, _version, _need_update, _future,
                   _listeners, _retry_backoff_ms, _metadata_max_age_ms,
                   futures, now, ticks, merges, lastTopics, lastCall, reader>>

\* "for listener in self._listeners: listener(self)", and the return
update_metadata_listeners ==
    /\ frame.pc = "listeners"
    /\ lastCall' = Call("update_metadata", frame.arg, NoneValue, "",
                        NotifyListeners)
    /\ merges' = merges + 1
    /\ lastTopics' = frame.arg.topics
    /\ frame' = IdleFrame
    /\ UNCHANGED <<_brokers, _partitions, _version, _last_refresh_ms,
                   _last_successful_refresh_ms, _need_update, _future,
                   _listeners, _retry_backoff_ms, _metadata_max_age_ms,
                   futures, now, ticks, reader>>

\* failed_update called by the driver
failed_update_enter(exception) ==
    /\ frame.pc = "idle"
    /\ frame' = Enter("failure", "failed_update", exception, exception)
    /\ UNCHANGED <<_brokers, _partitions, _version, _last_refresh_ms,
                   _last_successful_refresh_ms, _need_update, _future,
                   _listeners, _retry_backoff_ms, _metadata_max_age_ms,
                   futures, now, ticks, merges, lastTopics, lastCall, reader>>

\* "if self._future: self._future.failure(exception)": the Future is
\* resolved and runs its callbacks before the next statement
failed_update_failure ==
    /\ frame.pc = "failure"
    /\ IF _future # NoFuture
       THEN /\ futures' = [futures EXCEPT
                              ![_future] = FutureFailure(@, frame.exception)]
            /\ frame' = [frame EXCEPT !.pc = "fail_clear",
                                      !.resolved = _future]
       ELSE /\ UNCHANGED futures
            /\ frame' = [frame EXCEPT !.pc = "fail_stamp"]
    /\ UNCHANGED <<_brokers, _partitions, _version, _last_refresh_ms,
                   _last_successful_refresh_ms, _need_update, _future,
                   _listeners, _retry_backoff_ms, _metadata_max_age_ms,
                   now, ticks, merges, lastTopics, lastCall, reader>>

\* "self._future = None", inside the if
failed_update_clear ==
    /\ frame.pc = "fail_clear"
    /\ _future' = NoFuture
    /\ frame' = [frame EXCEPT !.pc = "fail_stamp"]
    /\ UNCHANGED <<_brokers, _partitions, _version, _last_refresh_ms,
                   _last_successful_refresh_ms, _need_update, _listeners,
                   _retry_backoff_ms, _metadata_max_age_ms, futures, now,
                   ticks, merges, lastTopics, lastCall, reader>>

\* "self._last_refresh_ms = time.time() * 1000", and the return
failed_update_stamp ==
    /\ frame.pc = "fail_stamp"
    /\ _last_refresh_ms' = now
    /\ lastCall' = Call(frame.op, frame.arg, NoneValue, "", NoCalls)
    /\ frame' = IdleFrame
    /\ UNCHANGED <<_brokers, _partitions, _version,
                   _last_successful_refresh_ms, _need_update, _future,
                   _listeners, _retry_backoff_ms, _metadata_max_age_ms,
                   futures, now, ticks, merges, lastTopics, reader>>

\* request_update called by a callback of the Future that success() or
\* failure() has just resolved
request_update_in_callback ==
    /\ frame.pc \in {"clear", "fail_clear"}
    /\ frame.resolved # NoFuture
    /\ request_update

(* The queries of another thread.  topics() reads the dict once;          *)
(* partitions_for_topic and leader_for_partition test for the topic in    *)
(* one statement and index the dict in the next.                          *)

\* "return set(self._partitions.keys())"
topics_call ==
    /\ reader.pc = "idle"
    /\ lastCall' = Call("topics", NoneValue, topics, "", NoCalls)
    /\ UNCHANGED <<_brokers, _partitions, _version, _last_refresh_ms,
                   _last_successful_refresh_ms, _need_update, _future,
                   _listeners, _retry_backoff_ms, _metadata_max_age_ms,
                   futures, now, ticks, merges, lastTopics, frame, reader>>

\* "if topic not in self._partitions: return None"
partitions_for_topic_enter(topic) ==
    /\ reader.pc = "idle"
    /\ IF topic \notin DOMAIN _partitions
       THEN /\ lastCall' = Call("partitions_for_topic", topic, NoneValue, "",
                                NoCalls)
            /\ UNCHANGED reader
       ELSE /\ reader' = [pc |-> "partitions_for_topic", arg |-> topic]
            /\ UNCHANGED lastCall
    /\ UNCHANGED <<_brokers, _partitions, _version, _last_refresh_ms,
                   _last_successful_refresh_ms, _need_update, _future,
                   _listeners, _retry_backoff_ms, _metadata_max_age_ms,
                   futures, now, ticks, merges, lastTopics, frame>>

\* "return set(self._partitions[topic].keys())"
partitions_for_topic_return ==
    /\ reader.pc = "partitions_for_topic"
    /\ lastCall' =
          IF reader.arg \in DOMAIN _partitions
          THEN Call("partitions_for_topic", reader.arg,
                    Some(DOMAIN _partitions[reader.arg]), "", NoCalls)
          ELSE Call("partitions_for_topic", reader.arg, NoneValue,
                    "KeyError", NoCalls)
    /\ reader' = IdleReader
    /\ UNCHANGED <<_brokers, _partitions, _version, _last_refresh_ms,
                   _last_successful_refresh_ms, _need_update, _future,
                   _listeners, _retry_backoff_ms, _metadata_max_age_ms,
                   futures, now, ticks, merges, lastTopics, frame>>

\* "if partition.topic not in self._partitions: return None"
leader_for_partition_enter(partition) ==
    /\ reader.pc = "idle"
    /\ IF partition.topic \notin DOMAIN _partitions
       THEN /\ lastCall' = Call("leader_for_partition", partition, NoneValue,
                                "", NoCalls)
            /\ UNCHANGED reader
       ELSE /\ reader' = [pc |-> "leader_for_partition", arg |-> partition]
            /\ UNCHANGED lastCall
    /\ UNCHANGED <<_brokers, _partitions, _version, _last_refresh_ms,
                   _last_successful_refresh_ms, _need_update, _future,
                   _listeners, _retry_backoff_ms, _metadata_max_age_ms,
                   futures, now, ticks, merges, lastTopics, frame>>

\* "return self._partitions[partition.topic].get(partition.partition)"
leader_for_partition_return ==
    /\ reader.pc = "leader_for_partition"
    /\ lastCall' =
          IF reader.arg.topic \in DOMAIN _partitions
          THEN Call("leader_for_partition", reader.arg,
                    DictGet(_partitions[reader.arg.topic],
                            reader.arg.partition), "", NoCalls)
          ELSE Call("leader_for_partition", reader.arg, NoneValue,
                    "KeyError", NoCalls)
    /\ reader' = IdleReader
    /\ UNCHANGED <<_brokers, _partitions, _version, _last_refresh_ms,
                   _last_successful_refresh_ms, _need_update, _future,
                   _listeners, _retry_backoff_ms, _metadata_max_age_ms,
                   futures, now, ticks, merges, lastTopics, frame>>

\* the responses merged statement by statement: "orders" with two
\* partitions, "orders" with one beside a failing topic, and a single
\* failing topic
StepResponses ==
    { [brokers |-> <<<<1, "h1", 9092>>>>,
       topics  |-> << <<0, "orders",
                        <<PartitionEntry(0, 1), PartitionEntry(1, 2)>>>> >>],
      [brokers |-> <<<<2, "h2", 9092>>>>,
       topics  |-> << <<0, "orders", <<PartitionEntry(0, 2)>>>>,
                      <<3, "ghost", <<>>>> >>],
      [brokers |-> <<<<1, "h1", 9092>>>>,
       topics  |-> << <<5, "orders", <<>>>> >>] }

StepPartitions == {TopicPartition("orders", 0), TopicPartition("orders", 1)}

\* One driver thread, which lets at least a millisecond pass between two
\* of its calls and none within a call, and the callbacks of the Future
\* it resolves.
NextSteps ==
    \/ frame.pc = "idle" /\ Tick(1)
    \/ frame.pc = "idle" /\ request_update
    \/ frame.pc = "idle" /\ add_listener("cb1")
    \/ \E metadata \in StepResponses : update_metadata_enter(metadata)
    \/ update_metadata_brokers
    \/ update_metadata_reset
    \/ update_metadata_topic
    \/ update_metadata_partition
    \/ update_metadata_success
    \/ update_metadata_clear
    \/ update_metadata_flag
    \/ update_metadata_version
    \/ update_metadata_stamp
    \/ update_metadata_listeners
    \/ \E exception \in Exceptions : failed_update_enter(exception)
    \/ failed_update_failure
    \/ failed_update_clear
    \/ failed_update_stamp
    \/ request_update_in_callback

SpecSteps == InitDefault /\ [][NextSteps]_vars

\* the responses merged beside the queries: those of StepResponses that
\* reach the merge
ReaderResponses == {metadata \in StepResponses : ~IsSingleTopicError(metadata)}

\* The driver thread merging responses, and one thread of queries.
NextReaders ==
    \/ \E metadata \in ReaderResponses : update_metadata_enter(metadata)
    \/ update_metadata_brokers
    \/ update_metadata_reset
    \/ update_metadata_topic
    \/ update_metadata_partition
    \/ update_metadata_success
    \/ update_metadata_clear
    \/ update_metadata_flag
    \/ update_metadata_version
    \/ update_metadata_stamp
    \/ update_metadata_listeners
    \/ topics_call
    \/ \E topic \in {"orders"} : partitions_for_topic_enter(topic)
    \/ partitions_for_topic_return
    \/ \E partition \in StepPartitions : leader_for_partition_enter(partition)
    \/ leader_for_partition_return

SpecReaders == InitDefault /\ [][NextReaders]_vars

----------------------------------------------------------------------------
(* The refresh handshake: a clock that keeps advancing and a driver that  *)
(* makes a refresh attempt whenever ttl() returns 0, and reports it with  *)
(* update_metadata or failed_update.                                      *)

\* __init__ with the two periods overridden
InitDriver ==
    /\ Init
    /\ _retry_backoff_ms # DefaultRetryBackoffMs

\* the latest reading of the clock that is told apart: no less than
\* either period
Horizon == Max({_retry_backoff_ms, _metadata_max_age_ms})

\* The clock advances by d.  ttl reads only the differences between the
\* clock and the two timestamps, so the epoch of the clock is arbitrary:
\* when the clock would pass Horizon the epoch is moved forward by the
\* excess.  A timestamp older than the new epoch becomes 0; it is then a
\* period or more in the past, before and after, and its term of ttl is 0
\* or less.
Elapse(d) ==
    /\ LET excess == Max({now + d - Horizon, 0}) IN
       /\ now' = now + d - excess
       /\ _last_refresh_ms' = Max({_last_refresh_ms - excess, 0})
       /\ _last_successful_refresh_ms' =
             Max({_last_successful_refresh_ms - excess, 0})
    /\ lastCall' = Call("clock", d, NoneValue, "", NoCalls)
    /\ UNCHANGED <<_brokers, _partitions, _version, _need_update, _future,
                   _listeners, _retry_backoff_ms, _metadata_max_age_ms,
                   futures, ticks, merges, lastTopics, frame, reader>>

\* the driver: "when ttl() returns 0, perform a refresh and call
\* update_metadata or failed_update"
DriverAttempt ==
    /\ ttl = 0
    /\ \/ \E metadata \in ClockResponses : update_metadata(metadata)
       \/ \E exception \in Exceptions : failed_update(exception)

NextDriver ==
    \/ \E d \in {1} : Elapse(d)
    \/ request_update
    \/ DriverAttempt

SpecDriver ==
    /\ InitDriver
    /\ [][NextDriver]_vars
    /\ WF_vars(\E d \in {1} : Elapse(d))
    /\ WF_vars(DriverAttempt)

----------------------------------------------------------------------------
(* Properties. *)

Range(seq) == {seq[i] : i \in DOMAIN seq}

\* the last call was an update_metadata that reached the merge
LastCallMerged ==
    lastCall.op = "update_metadata" /\ ~OneTopicInError(lastCall.arg)

\* the last call was an update_metadata of one topic in error
LastCallShortCircuited ==
    lastCall.op = "update_metadata" /\ OneTopicInError(lastCall.arg)

\* C1: starting from version 0, after any sequence of calls the version is
\* the number of update_metadata calls whose response was not a single
\* topic in error; failed_update and the single-topic-error path leave it.
C1_VersionCountsMerges == _version = merges

\* two merges, then a single-topic error, have happened
C1_Witness == merges >= 2 /\ LastCallShortCircuited /\ _version = merges

\* the topics of a topic list that carry error code 0
NoErrorTopics(entries) == {e[2] : e \in {x \in Range(entries) : x[1] = 0}}

\* the entry of topic t in a topic list that names it once
EntryOf(entries, t) == CHOOSE e \in Range(entries) : e[2] = t

\* the partition indices of a partition list
IndicesOf(partitions) == {p[2] : p \in Range(partitions)}

\* the leader the last entry for index i of a partition list gives
LeaderOf(partitions, i) ==
    partitions[Max({k \in DOMAIN partitions : partitions[k][2] = i})][3]

\* C2: topics() is exactly the set of topics with error code 0 in the last
\* merged response (none before the first), and for each of them
\* partitions_for_topic and leader_for_partition give exactly the partition
\* indices and leaders of that response's entry: nothing older survives.
C2_PartitionsAreLastResponse ==
    /\ topics = NoErrorTopics(lastTopics)
    /\ \A t \in TopicNames :
          IF t \in NoErrorTopics(lastTopics)
          THEN LET ps == EntryOf(lastTopics, t)[3] IN
               /\ partitions_for_topic(t) = Some(IndicesOf(ps))
               /\ \A i \in 0..2 :
                     leader_for_partition(TopicPartition(t, i)) =
                        IF i \in IndicesOf(ps)
                        THEN Some(LeaderOf(ps, i))
                        ELSE NoneValue
          ELSE /\ partitions_for_topic(t) = NoneValue
               /\ \A i \in 0..2 :
                     leader_for_partition(TopicPartition(t, i)) = NoneValue

\* a second merge, whose response no longer has "orders" without error and
\* gives "ghost" one partition index, led by the leader of its last entry
C2_Witness ==
    /\ merges >= 2
    /\ LastCallMerged
    /\ topics = {"ghost"}
    /\ partitions_for_topic("ghost") = Some({0})
    /\ leader_for_partition(TopicPartition("ghost", 0)) = Some(1)
    /\ Len(EntryOf(lastTopics, "ghost")[3]) = 2

\* the BrokerMetadata a broker list describes, the last entry of a node_id
\* winning
BrokersOf(entries) ==
    { BrokerMetadata(e[1], e[2], e[3]) :
        e \in { entries[k] : k \in { j \in DOMAIN entries :
                  \A l \in DOMAIN entries : l > j => entries[l][1] # entries[j][1] } } }

\* C3: after a merge, brokers() is exactly the BrokerMetadata of that
\* response's broker entries (the last entry of a node_id wins), and
\* broker_metadata is not-found for every node_id the response lacks.
C3_BrokersAreLastResponse ==
    LastCallMerged =>
        /\ brokers = BrokersOf(lastCall.arg.brokers)
        /\ \A n \in NodeIds :
              n \notin {e[1] : e \in Range(lastCall.arg.brokers)}
                 => broker_metadata(n) = NoneValue

\* the Futures that are not resolved
Pending == {h \in DOMAIN futures : ~futures[h].is_done}

\* after the step the Future h is resolved with the failure e and the
\* cache holds no Future; the other Futures are as before
FailedWith(h, e) ==
    /\ futures' = [futures EXCEPT ![h] = [is_done |-> TRUE,
                                          value |-> NoneValue,
                                          exception |-> Some(e)]]
    /\ _future' = NoFuture

\* a call, of those that resolve nothing, was made
NonResolvingStep ==
    lastCall'.op \in {"clock", "add_listener", "remove_listener"}

\* C4: the cache holds at most one pending Future, the one in _future;
\* request_update returns it while it is pending (so calls with no
\* update_metadata or failed_update in between return the same one), and
\* with none pending returns a Future that no earlier call returned.
C4_OnePendingHandle ==
    /\ [](/\ Cardinality(Pending) <= 1
          /\ Pending = IF _future = NoFuture THEN {} ELSE {_future})
    /\ [][/\ lastCall'.op = "request_update" =>
                /\ lastCall'.ret = _future'
                /\ Pending' = {lastCall'.ret}
                /\ IF Pending # {}
                   THEN lastCall'.ret \in Pending /\ futures' = futures
                   ELSE lastCall'.ret \notin DOMAIN futures
          /\ NonResolvingStep => _future' = _future /\ futures' = futures
         ]_vars

\* request_update has returned a second Future, after the first was
\* resolved
C4_Witness ==
    /\ lastCall.op = "request_update"
    /\ lastCall.ret = 2
    /\ futures[1].is_done
    /\ Pending = {2}

\* C5: update_metadata of a response with exactly one topic, in error,
\* does what failed_update does: the pending Future, if any, is resolved
\* with a failure for that topic and cleared, _last_refresh_ms is stamped,
\* brokers, partitions, version, need_update and
\* _last_successful_refresh_ms are unchanged and no listener is invoked.
C5_SingleTopicErrorFails ==
    [][(lastCall'.op = "update_metadata" /\ OneTopicInError(lastCall'.arg)) =>
          LET entry == lastCall'.arg.topics[1] IN
          /\ IF _future # NoFuture
             THEN /\ FailedWith(_future, [type |-> for_code(entry[1]),
                                          args |-> entry[2]])
                  /\ futures'[_future].exception.value.args = entry[2]
             ELSE futures' = futures /\ _future' = NoFuture
          /\ _last_refresh_ms' = now'
          /\ UNCHANGED <<_brokers, _partitions, _version, _need_update,
                         _last_successful_refresh_ms, _listeners>>
          /\ lastCall'.notified = NoCalls
      ]_vars

\* a single-topic error arrived at a cache with brokers, partitions, a
\* listener, a requested update and a pending Future, later than the last
\* success
C5_Witness ==
    /\ LastCallShortCircuited
    /\ _version >= 1
    /\ _brokers # EmptyDict /\ _partitions # EmptyDict
    /\ _listeners # {}
    /\ _need_update
    /\ Len(futures) >= 1
    /\ futures[Len(futures)].exception =
          Some([type |-> "LeaderNotAvailableError", args |-> "orders"])
    /\ _future = NoFuture
    /\ _last_refresh_ms > _last_successful_refresh_ms

\* C6: a response that is not exactly one topic in error (no topic, or
\* two or more with any error codes) is merged as a success: the pending
\* Future is resolved with success, the version is incremented,
\* need_update is cleared, and every topic with a non-zero code is absent
\* from the partition map.
C6_OtherResponsesSucceed ==
    [][(lastCall'.op = "update_metadata" /\ ~OneTopicInError(lastCall'.arg)) =>
          /\ IF _future # NoFuture
             THEN futures' = [futures EXCEPT ![_future] =
                                 [is_done |-> TRUE, value |-> Some("self"),
                                  exception |-> NoneValue]]
             ELSE futures' = futures
          /\ _future' = NoFuture
          /\ _version' = _version + 1
          /\ _need_update' = FALSE
          /\ \A e \in Range(lastCall'.arg.topics) :
                e[1] # 0 => e[2] \notin topics'
      ]_vars

\* a response of two topics, both in error, resolved the pending Future
\* with success
C6_Witness ==
    /\ LastCallMerged
    /\ Len(lastCall.arg.topics) = 2
    /\ \A e \in Range(lastCall.arg.topics) : e[1] # 0
    /\ Len(futures) >= 1
    /\ futures[Len(futures)].value = Some("self")
    /\ ~_need_update
    /\ _version >= 1
    /\ topics = {}

\* C7: failed_update(error) resolves the pending Future, if any, with the
\* failure and clears it, sets _last_refresh_ms to now, and leaves
\* need_update (also when set), version, _last_successful_refresh_ms, the
\* brokers, the partitions and the listeners unchanged.
C7_FailedUpdateFrame ==
    [][lastCall'.op = "failed_update" =>
          /\ IF _future # NoFuture
             THEN FailedWith(_future, lastCall'.arg)
             ELSE futures' = futures /\ _future' = NoFuture
          /\ _last_refresh_ms' = now'
          /\ UNCHANGED <<_need_update, _version,
                         _last_successful_refresh_ms, _brokers, _partitions,
                         _listeners>>
      ]_vars

\* failed_update failed the pending Future of a requested update, at a
\* cache with brokers, partitions and a listener, later than the last
\* success
C7_Witness ==
    /\ lastCall.op = "failed_update"
    /\ _need_update
    /\ _version >= 1
    /\ _brokers # EmptyDict /\ _partitions # EmptyDict
    /\ _listeners # {}
    /\ Len(futures) >= 1
    /\ futures[Len(futures)].exception = Some(lastCall.arg)
    /\ _future = NoFuture
    /\ _last_refresh_ms > _last_successful_refresh_ms

\* clock values at which ttl() is read: the present one, and those around
\* the end of the backoff window and of the maximum age
ProbeTimes ==
    {now, _last_refresh_ms, _last_successful_refresh_ms}
    \cup { t \in { _last_refresh_ms + _retry_backoff_ms + k : k \in -1..1 }
                \cup { _last_successful_refresh_ms + _metadata_max_age_ms + k :
                          k \in -1..1 } : t >= 0 }

\* C8: at every clock value, ttl() is 0 exactly when retry_backoff_ms has
\* elapsed since _last_refresh_ms and (need_update is set or
\* metadata_max_age_ms has elapsed since _last_successful_refresh_ms); so
\* with an update requested ttl() is positive inside the backoff window
\* of the last attempt and 0 from its end on.
C8_TtlZeroWhenDue ==
    \A t \in ProbeTimes :
       /\ ttl_at(t) = 0 <=>
             /\ t - _last_refresh_ms >= _retry_backoff_ms
             /\ \/ _need_update
                \/ t - _last_successful_refresh_ms >= _metadata_max_age_ms
       /\ _need_update =>
             (ttl_at(t) > 0 <=> t < _last_refresh_ms + _retry_backoff_ms)

\* an update is requested and the backoff window of a failed attempt has
\* just elapsed: ttl() was positive a millisecond before its end and is 0
\* now
C8_Witness ==
    /\ _need_update
    /\ _last_refresh_ms > 0
    /\ _last_refresh_ms > _last_successful_refresh_ms
    /\ now >= _last_refresh_ms + _retry_backoff_ms
    /\ ttl = 0
    /\ ttl_at(_last_refresh_ms + _retry_backoff_ms - 1) > 0

\* a cache on which nothing but the clock has acted
Fresh ==
    /\ _version = 0 /\ merges = 0
    /\ _last_refresh_ms = 0 /\ _last_successful_refresh_ms = 0
    /\ ~_need_update
    /\ futures = <<>>

\* C9: with a clock that never runs backwards ttl() is never negative and
\* never more than max(metadata_max_age_ms, retry_backoff_ms); for a
\* fresh cache with the defaults it lies between 0 and
\* metadata_max_age_ms.
C9_TtlBounds ==
    /\ ttl >= 0
    /\ ttl <= Max({_metadata_max_age_ms, _retry_backoff_ms})
    /\ (/\ Fresh
        /\ _retry_backoff_ms = DefaultRetryBackoffMs
        /\ _metadata_max_age_ms = DefaultMetadataMaxAgeMs)
          => ttl >= 0 /\ ttl <= DefaultMetadataMaxAgeMs

\* a backoff longer than the maximum age: right after a failed attempt
\* ttl() is the whole backoff, more than metadata_max_age_ms
C9_Witness ==
    /\ _retry_backoff_ms > _metadata_max_age_ms
    /\ lastCall.op = "failed_update"
    /\ now > 0
    /\ ttl = _retry_backoff_ms

\* C10: _last_refresh_ms >= _last_successful_refresh_ms in every state;
\* _last_successful_refresh_ms changes only in an update_metadata that
\* merges, which sets both timestamps to the same now.
C10_RefreshNotBeforeSuccess ==
    /\ [](_last_refresh_ms >= _last_successful_refresh_ms)
    /\ [][/\ _last_successful_refresh_ms' # _last_successful_refresh_ms =>
                lastCall'.op = "update_metadata"
                   /\ ~OneTopicInError(lastCall'.arg)
          /\ (lastCall'.op = "update_metadata"
                 /\ ~OneTopicInError(lastCall'.arg)) =>
                /\ _last_successful_refresh_ms' = now'
                /\ _last_refresh_ms' = now'
         ]_vars

\* a failed attempt after a success that was itself later than the
\* construction
C10_Witness ==
    /\ lastCall.op = "failed_update"
    /\ _last_successful_refresh_ms > 0
    /\ _last_refresh_ms > _last_successful_refresh_ms

\* C11: need_update becomes true only in request_update and false only
\* in an update_metadata that merges; failed_update, the single-topic-error
\* path, the clock and the listener operations never change it (ttl() and
\* the read queries are operators on the state and assign nothing).
C11_NeedUpdateTransitions ==
    [][/\ (~_need_update /\ _need_update') => lastCall'.op = "request_update"
       /\ (_need_update /\ ~_need_update') =>
             lastCall'.op = "update_metadata"
                /\ ~OneTopicInError(lastCall'.arg)
       /\ lastCall'.op = "request_update" => _need_update'
       /\ (lastCall'.op = "update_metadata"
              /\ ~OneTopicInError(lastCall'.arg)) => ~_need_update'
      ]_vars

\* a requested update outlived a failed attempt and a single-topic error
\* and was then cleared by a merge
C11_Witness ==
    /\ LastCallMerged
    /\ ~_need_update
    /\ Len(futures) >= 2
    /\ futures[1].exception # NoneValue
    /\ futures[2].value = Some("self")

\* the cache without its listeners
CacheButListeners ==
    <<_brokers, _partitions, _version, _last_refresh_ms,
      _last_successful_refresh_ms, _need_update, _future, futures,
      _retry_backoff_ms, _metadata_max_age_ms>>

\* C13: remove_listener of a callback that is not registered raises and
\* leaves the cache unchanged; remove_listener of a registered callback
\* removes it, and no update_metadata invokes a callback that is not
\* registered, which only add_listener of that callback makes it again.
C13_RemoveListener ==
    /\ [](\A cb \in Callbacks :
             cb \notin _listeners => lastCall.notified[cb] = 0)
    /\ [][/\ lastCall'.op = "remove_listener" =>
                /\ UNCHANGED CacheButListeners
                /\ IF lastCall'.arg \in _listeners
                   THEN /\ _listeners' = _listeners \ {lastCall'.arg}
                        /\ lastCall'.raised = ""
                   ELSE /\ _listeners' = _listeners
                        /\ lastCall'.raised = "KeyError"
          /\ \A cb \in Callbacks :
                (cb \notin _listeners /\ cb \in _listeners') =>
                   lastCall'.op = "add_listener" /\ lastCall'.arg = cb
         ]_vars

\* remove_listener of a callback that is not registered raised KeyError,
\* at a cache that has merged a response and has another listener
C13_Witness ==
    /\ lastCall.op = "remove_listener"
    /\ lastCall.arg = "cb1"
    /\ lastCall.raised = "KeyError"
    /\ _listeners = {"cb2"}
    /\ _version >= 1

\* C14 as stated: an empty per-topic partition map is never stored; for
\* every topic partitions_for_topic is not-found or a non-empty set, also
\* after a response whose NoError entry lists zero partitions.
C14_NeverEmpty ==
    \A t \in TopicNames : partitions_for_topic(t) # Some({})

\* C14, amended: for every topic partitions_for_topic is not-found or a
\* set of partition indices, which is empty exactly when the topic's
\* NoError entry in the last merged response lists zero partitions.
C14_EmptyOnlyForZeroPartitions ==
    \A t \in TopicNames :
       /\ partitions_for_topic(t) = NoneValue
             \/ partitions_for_topic(t) = Some(DOMAIN _partitions[t])
       /\ partitions_for_topic(t) = Some({}) <=>
             /\ t \in NoErrorTopics(lastTopics)
             /\ EntryOf(lastTopics, t)[3] = <<>>

\* a response with "ghost" without error and without partitions, beside
\* "orders" with two partitions, was merged
C14_Witness ==
    /\ LastCallMerged
    /\ partitions_for_topic("ghost") = Some({})
    /\ partitions_for_topic("orders") = Some({0, 1})

\* the call of the step is a refresh attempt
AttemptStep ==
    lastCall'.op \in {"update_metadata", "failed_update"}

\* what the attempt of the step resolves a pending Future with
AttemptOutcome ==
    IF lastCall'.op = "failed_update"
    THEN [is_done |-> TRUE, value |-> NoneValue,
          exception |-> Some(lastCall'.arg)]
    ELSE IF OneTopicInError(lastCall'.arg)
    THEN [is_done |-> TRUE, value |-> NoneValue,
          exception |-> Some(ErrorInstance(lastCall'.arg.topics[1][1],
                                           lastCall'.arg.topics[1][2]))]
    ELSE [is_done |-> TRUE, value |-> Some("self"), exception |-> NoneValue]

\* C18: with the operations run one at a time, the Future returned by
\* request_update is resolved exactly once, by the first update_metadata
\* or failed_update after it: with success by a merge, with failure by
\* failed_update and by the single-topic error; a resolved Future is
\* never changed again, no other call resolves one, and none is pending
\* after an attempt.
C18_ResolvedOnceByNextAttempt ==
    /\ [](lastCall.op \in {"update_metadata", "failed_update"}
             => Pending = {})
    /\ [][/\ DOMAIN futures \subseteq DOMAIN futures'
          /\ \A h \in DOMAIN futures :
                futures[h].is_done => futures'[h] = futures[h]
          /\ lastCall'.op = "request_update" =>
                lastCall'.ret \in Pending'
          /\ \A h \in Pending :
                IF AttemptStep
                THEN futures'[h] = AttemptOutcome
                ELSE futures'[h] = futures[h]
         ]_vars

\* two Futures were returned, the first resolved by a merge and the
\* second by the failed_update that was just called
C18_Witness ==
    /\ lastCall.op = "failed_update"
    /\ Len(futures) = 2
    /\ futures[1].value = Some("self")
    /\ futures[2].exception = Some(lastCall.arg)
    /\ _future = NoFuture

\* C12: an update_metadata that merges calls every listener registered
\* at that moment once and no other callback; failed_update, the
\* single-topic error and every other call call none.  The calls a
\* listener receives over a sequence of operations are the sum of these,
\* so they number the merges made while it was registered.
C12_ListenersCalledOncePerMerge ==
    [][\A cb \in Callbacks :
          lastCall'.notified[cb] =
             IF /\ lastCall'.op = "update_metadata"
                /\ ~OneTopicInError(lastCall'.arg)
                /\ cb \in _listeners
             THEN 1
             ELSE 0
      ]_vars

\* the second merge was made with cb1 registered and cb2 not
C12_Witness ==
    /\ LastCallMerged
    /\ _version = 2
    /\ _listeners = {"cb1"}
    /\ lastCall.notified["cb1"] = 1
    /\ lastCall.notified["cb2"] = 0

\* a call of update_metadata is between its first and its last statement
\* of the merge
Merging ==
    frame.pc \in {"brokers", "reset", "topic", "partition", "success",
                  "clear", "flag", "version", "stamp", "listeners"}

\* what the query of lastCall returns from the partition map pm
ReadOf(pm) ==
    IF lastCall.op = "topics"
    THEN DOMAIN pm
    ELSE IF lastCall.op = "partitions_for_topic"
    THEN IF lastCall.arg \in DOMAIN pm
         THEN Some(DOMAIN pm[lastCall.arg])
         ELSE NoneValue
    ELSE IF lastCall.arg.topic \in DOMAIN pm
         THEN DictGet(pm[lastCall.arg.topic], lastCall.arg.partition)
         ELSE NoneValue

\* what the query of lastCall returns once the response with the topic
\* list entries is merged
ReadAfter(entries) ==
    IF lastCall.op = "topics"
    THEN NoErrorTopics(entries)
    ELSE IF lastCall.op = "partitions_for_topic"
    THEN IF lastCall.arg \in NoErrorTopics(entries)
         THEN Some(IndicesOf(EntryOf(entries, lastCall.arg)[3]))
         ELSE NoneValue
    ELSE IF /\ lastCall.arg.topic \in NoErrorTopics(entries)
            /\ lastCall.arg.partition \in
                  IndicesOf(EntryOf(entries, lastCall.arg.topic)[3])
         THEN Some(LeaderOf(EntryOf(entries, lastCall.arg.topic)[3],
                            lastCall.arg.partition))
         ELSE NoneValue

\* C15: a query of the partition map (topics, partitions_for_topic,
\* leader_for_partition) that another thread makes while update_metadata
\* is merging raises nothing and returns what it returned before the call
\* or what it returns after it, never the value of a map rebuilt in part.
C15_ReadsSeeBeforeOrAfter ==
    (/\ Merging
     /\ lastCall.op \in {"topics", "partitions_for_topic",
                         "leader_for_partition"})
       => /\ lastCall.raised = ""
          /\ \/ lastCall.ret = ReadOf(frame.before.partitions)
             \/ lastCall.ret = ReadAfter(frame.arg.topics)

\* the state in which update_metadata calls the listeners
AtListeners == frame.pc = "listeners"

\* C16: update_metadata calls the listeners in its last statement only:
\* when it does, the broker map holds the brokers of the response, the
\* partition map is that of the response, the Future that was pending is
\* resolved with success and _future is None, _need_update is False,
\* _version is one more than before the call, and both timestamps are the
\* time of the call.
C16_ListenersAfterMutation ==
    /\ [](AtListeners =>
            /\ BrokersOf(frame.arg.brokers) \subseteq brokers
            /\ topics = NoErrorTopics(frame.arg.topics)
            /\ \A t \in NoErrorTopics(frame.arg.topics) :
                  LET ps == EntryOf(frame.arg.topics, t)[3] IN
                  /\ partitions_for_topic(t) = Some(IndicesOf(ps))
                  /\ \A i \in IndicesOf(ps) :
                        leader_for_partition(TopicPartition(t, i)) =
                           Some(LeaderOf(ps, i))
            /\ _future = NoFuture
            /\ frame.before.future # NoFuture =>
                  futures[frame.before.future] =
                     [is_done |-> TRUE, value |-> Some("self"),
                      exception |-> NoneValue]
            /\ ~_need_update
            /\ _version = frame.before.version + 1
            /\ _last_refresh_ms = now
            /\ _last_successful_refresh_ms = now)
    /\ [][(lastCall' # lastCall /\ lastCall'.notified # NoCalls)
             => AtListeners]_vars

\* update_metadata is about to call the listener cb1, a millisecond or
\* more after the cache was built, having merged a response with a
\* partition and resolved the Future of a request_update
C16_Witness ==
    /\ AtListeners
    /\ _listeners = {"cb1"}
    /\ frame.before.need_update
    /\ frame.before.future # NoFuture
    /\ frame.before.version = 1
    /\ frame.before.partitions # _partitions
    /\ now > 0

\* the state in which success() has resolved the Future and runs its
\* callbacks
AtSuccess == frame.pc = "clear" /\ frame.resolved # NoFuture

\* C17: when update_metadata resolves the pending Future with success, a
\* callback of the Future sees the cache updated: the maps of the
\* response, _version one more than before the call, _need_update False,
\* both timestamps the time of the call, and a ttl that no longer asks
\* for the refresh.
C17_SuccessCarriesUpdatedCache ==
    AtSuccess =>
        /\ BrokersOf(frame.arg.brokers) \subseteq brokers
        /\ topics = NoErrorTopics(frame.arg.topics)
        /\ _version = frame.before.version + 1
        /\ ~_need_update
        /\ _last_refresh_ms = now
        /\ _last_successful_refresh_ms = now
        /\ ttl > 0

\* C19: a Future that request_update returned and that is unresolved when
\* no call is under way is the one in _future, with _need_update True, so
\* that the next refresh attempt resolves it; also when request_update
\* was called by a callback of the Future that update_metadata or
\* failed_update had just resolved.
C19_ReentrantRequestKept ==
    frame.pc = "idle" =>
        \A h \in Pending : _future = h /\ _need_update

\* the last call was a refresh attempt, and no time has passed since
JustAttempted ==
    /\ lastCall.op \in {"update_metadata", "failed_update"}
    /\ _last_refresh_ms = now

\* C20: with a clock that keeps advancing and a driver that attempts a
\* refresh whenever ttl is 0: while need_update is set, ttl returns to 0
\* (after the backoff window of the last attempt) and an attempt follows,
\* so that every request_update is followed by an attempt and a failed
\* attempt by another; a failed attempt leaves need_update set; every
\* pending Future is eventually resolved; and an attempt that merges
\* clears need_update and leaves no Future pending.
C20_RefreshHandshake ==
    /\ (_need_update /\ ttl > 0) ~> (_need_update /\ ttl = 0)
    /\ (_need_update /\ ~JustAttempted) ~> JustAttempted
    /\ (lastCall.op = "request_update") ~> JustAttempted
    /\ (Pending # {}) ~> (Pending = {})
    /\ [][/\ (lastCall'.op = "failed_update"
                 \/ (lastCall'.op = "update_metadata"
                        /\ OneTopicInError(lastCall'.arg)))
             => (_need_update' = _need_update /\ ttl' > 0)
          /\ (lastCall'.op = "update_metadata"
                 /\ ~OneTopicInError(lastCall'.arg))
             => (~_need_update' /\ Pending' = {})
         ]_vars

\* the Future of the first request_update was failed by the first
\* attempt, the Future of the second was resolved with success by a later
\* attempt, and the backoff window of that attempt is running
C20_Witness ==
    /\ JustAttempted
    /\ LastCallMerged
    /\ Len(futures) = 2
    /\ futures[1].exception # NoneValue
    /\ futures[2].value = Some("self")
    /\ ~_need_update
    /\ ttl = Horizon

====
